---- MODULE Spec2Model ----
(***************************************************************************)
(* Model of src/main.py: the signup, game, roster and verification-code    *)
(* endpoints of the Minimon backend, over four MongoDB collections.        *)
(*                                                                         *)
(* A collection is a sequence of documents in insertion order (find_one,   *)
(* update_one and delete_one act on the first match).  A request handler   *)
(* is a process: every statement that reads the clock or talks to the      *)
(* store is one atomic step, statements that touch only locals are folded  *)
(* into the step before them.  Time is counted in seconds.                 *)
(***************************************************************************)
EXTENDS Integers, Sequences, FiniteSets

VARIABLES
    users_collection,         \* db["users"]
    games_collection,         \* db["games"]
    pokemon_collection,       \* db["pokemons"]
    verification_collection,  \* db["verifications"]
    now,                      \* datetime.utcnow(), in seconds
    ticks,                    \* number of clock advances so far
    requests,                 \* number of requests received so far
    GMAIL_USER,               \* os.getenv("GMAIL_USER") is set
    GMAIL_APP_PASSWORD,       \* os.getenv("GMAIL_APP_PASSWORD") is set
    pc,                       \* per handler: the statement it is at
    data,                     \* per handler: the request body
    verification_code,        \* per handler: local of send_verification_email*
    expiration_time,          \* per handler: local of send_verification_email*
    created_at,               \* per handler: the created_at read for the $set document
    expires_lt,               \* per handler: the utcnow() read for delete_many's filter
    verification,             \* per handler: local of get_verification_code
    game,                     \* per handler: local of end_game
    pokes,                    \* per handler: local of end_game
    response,                 \* the response the last step returned, if it returned one
    history                   \* the last exchange completed by a client that waits
                              \* for each response before its next request

vars == <<users_collection, games_collection, pokemon_collection,
          verification_collection, now, ticks, requests, GMAIL_USER, GMAIL_APP_PASSWORD,
          pc, data, verification_code, expiration_time, created_at, expires_lt,
          verification, game, pokes, response, history>>

storeVars == <<users_collection, games_collection, pokemon_collection,
               verification_collection>>

envVars == <<GMAIL_USER, GMAIL_APP_PASSWORD>>

clockVars == <<now, ticks>>

\* what a step of a handler past its first statement leaves alone
restVars == <<now, ticks, requests, GMAIL_USER, GMAIL_APP_PASSWORD>>

\* the locals of the handlers
localVars == <<data, verification_code, expiration_time, created_at, expires_lt, verification,
               game, pokes>>

(***************************************************************************)
(* Bounds of the model.                                                    *)
(***************************************************************************)
MaxTicks == 2
MaxRequests == 3

\* two request handlers run concurrently
Procs == {1, 2}

\* generate_code(8) draws uniformly from [A-Z0-9]^8; the model draws from two codes
Codes == {"K7Q2ZP0A", "M3X9TB1C"}

\* the value of a code local before generate_code has run
NoCode == ""

\* Clock advances between two steps: a moment, or the whole validity period.
Delays == {1, 600}

(***************************************************************************)
(* validate_email: re.match of                                             *)
(*   ^[a-zA-Z0-9._%+-]+@[a-zA-Z0-9.-]+\.[a-zA-Z]{2,}$                      *)
(* on an email given as a tuple of one-character strings.                  *)
(***************************************************************************)
Letters == {"a","b","c","d","e","f","g","h","i","j","k","l","m",
            "n","o","p","q","r","s","t","u","v","w","x","y","z",
            "A","B","C","D","E","F","G","H","I","J","K","L","M",
            "N","O","P","Q","R","S","T","U","V","W","X","Y","Z"}

Digits == {"0","1","2","3","4","5","6","7","8","9"}

LocalChars == Letters \cup Digits \cup {".", "_", "%", "+", "-"}

DomainChars == Letters \cup Digits \cup {".", "-"}

\* s[a..b] is non-empty and drawn from class
AllIn(s, a, b, class) == a <= b /\ \A k \in a..b : s[k] \in class

\* the pattern matches s[1..n] in full
FullMatch(s, n) ==
    \E i \in 1..n : \E j \in 1..n :
        /\ i < j
        /\ s[i] = "@"
        /\ s[j] = "."
        /\ AllIn(s, 1, i - 1, LocalChars)
        /\ AllIn(s, i + 1, j - 1, DomainChars)
        /\ j + 2 <= n
        /\ AllIn(s, j + 1, n, Letters)

\* '$' also matches just before a trailing newline
validate_email(email) ==
    \/ FullMatch(email, Len(email))
    \/ /\ Len(email) >= 1
       /\ email[Len(email)] = "\n"
       /\ FullMatch(email, Len(email) - 1)

\* the emails requests carry: two that validate_email accepts, one that it rejects
Emails == { <<"a","@","b",".","i","o">>, <<"c","@","d",".","i","o">>,
            <<"a","@","b",".","c">> }

\* those, and an address followed by a newline, which validate_email accepts
InputEmails == Emails \cup { <<"a","@","b",".","i","o","\n">> }

(***************************************************************************)
(* The document store: the pymongo calls the handlers make.                *)
(***************************************************************************)
\* indices of the documents of coll matched by the filter {field: value}
Matches(coll, field, value) == { i \in 1..Len(coll) : coll[i][field] = value }

Min(S) == CHOOSE x \in S : \A y \in S : x <= y

\* coll without its element at index i
RemoveAt(coll, i) == [k \in 1..(Len(coll) - 1) |-> IF k < i THEN coll[k] ELSE coll[k + 1]]

\* document old after {"$set": set}: the fields of set overwritten or added
SetFields(old, set) ==
    [k \in DOMAIN old \cup DOMAIN set |-> IF k \in DOMAIN set THEN set[k] ELSE old[k]]

\* find_one({field: value}): <<>> for None, else <<first matching document>>
find_one(coll, field, value) ==
    IF Matches(coll, field, value) = {} THEN <<>>
    ELSE <<coll[Min(Matches(coll, field, value))]>>

\* delete_one({field: value}): removes the first matching document
delete_one(coll, field, value) ==
    IF Matches(coll, field, value) = {} THEN coll
    ELSE RemoveAt(coll, Min(Matches(coll, field, value)))

delete_many_gte(coll, field, value) == SelectSeq(coll, LAMBDA d : d[field] < value)

\* delete_many({field: {"$lt": value}}): removes every matching document
delete_many_lt(coll, field, value) == SelectSeq(coll, LAMBDA d : ~(d[field] < value))

\* update_one({field: value}, {"$set": set}): changes the first matching document
update_one(coll, field, value, set) ==
    IF Matches(coll, field, value) = {} THEN coll
    ELSE [coll EXCEPT ![Min(Matches(coll, field, value))] = SetFields(@, set)]

insert_always(coll, field, value, set) == Append(coll, set)

set_on_insert(coll, field, value, set) ==
    IF Matches(coll, field, value) = {} THEN Append(coll, set) ELSE coll

newest_wins(coll, field, value, set) ==
    IF Matches(coll, field, value) = {} THEN Append(coll, set)
    ELSE IF set.expires_at >= coll[Min(Matches(coll, field, value))].expires_at
         THEN update_one(coll, field, value, set)
         ELSE coll

\* update_one({field: value}, {"$set": set}, upsert=True), where set names field too
upsert_one(coll, field, value, set) ==
    IF Matches(coll, field, value) = {} THEN Append(coll, set)
    ELSE update_one(coll, field, value, set)

\* timedelta(minutes=10), in seconds
TTL == 600

IntRound(x, d) == (2 * x + d) \div (2 * d)

\* int(x / 60): Python's int() truncates toward zero
IntDiv(x, d) == IF x >= 0 THEN x \div d ELSE -((-x) \div d)

VerificationDoc(email, code, expires_at, created) ==
    [email |-> email, code |-> code, expires_at |-> expires_at, created_at |-> created]

(***************************************************************************)
(* Responses.  Every response carries the endpoint that produced it.       *)
(***************************************************************************)
NoResponse == [op |-> "none", status |-> 0]

ErrorResponse(op, status, error) == [op |-> op, status |-> status, error |-> error]

\* the exchange a client has completed before its first request
NoExchange == [op |-> "none", status |-> 0, email |-> <<>>, arrived |-> 0,
               at |-> "idle", code |-> "", expires_at |-> 0]

\* a request body before any request has arrived
NoData == [op |-> "none", email |-> <<>>]

IssueEndpoints == {"send_verification_email", "send_verification_email_v2"}

\* request bodies of /send-verification-email, by how far the parsing gets:
\* "undecodable" is a body whose decode or json.loads raises something other than
\* JSONDecodeError, "email_not_str" a JSON object whose email is not a string
RawKinds == {"not_json_content_type", "undecodable", "invalid_json", "not_object",
             "no_email", "email_not_str", "ok"}

\* the exceptions the handlers catch, by class
StoreError == "PyMongoError"

\* f"Unexpected error: {str(e)}"
Unexpected(e) ==
    IF e = "UnicodeDecodeError" THEN "Unexpected error: UnicodeDecodeError"
    ELSE IF e = "TypeError" THEN "Unexpected error: TypeError"
    ELSE IF e = StoreError THEN "Unexpected error: PyMongoError"
    ELSE IF e = "SMTPAuthenticationError"
         THEN "Unexpected error: 500: Gmail authentication failed"
    ELSE IF e = "SMTPException" THEN "Unexpected error: 500: Failed to send email"
    ELSE "Unexpected error: OSError"

\* results of send_email's SMTP session
MailOutcomes == {"sent", "SMTPAuthenticationError", "SMTPException", "OSError"}


Init ==
    /\ users_collection = <<>>
    /\ games_collection = <<>>
    /\ pokemon_collection = <<>>
    /\ verification_collection = <<>>
    /\ now = 0
    /\ ticks = 0
    /\ requests = 0
    /\ GMAIL_USER \in BOOLEAN
    /\ GMAIL_APP_PASSWORD \in BOOLEAN
    /\ pc = [p \in Procs |-> "idle"]
    /\ data = [p \in Procs |-> NoData]
    /\ verification_code = [p \in Procs |-> NoCode]
    /\ expiration_time = [p \in Procs |-> 0]
    /\ created_at = [p \in Procs |-> 0]
    /\ expires_lt = [p \in Procs |-> 0]
    /\ verification = [p \in Procs |-> <<>>]
    /\ game = [p \in Procs |-> <<>>]
    /\ pokes = [p \in Procs |-> <<>>]
    /\ response = NoResponse
    /\ history = NoExchange

\* the clock advances between any two steps
Tick ==
    /\ ticks < MaxTicks
    /\ \E d \in Delays : now' = now + d
    /\ ticks' = ticks + 1
    /\ response' = NoResponse
    /\ UNCHANGED <<storeVars, envVars, requests, pc, localVars>>

\* a request arrives at an idle handler
Receive(p) ==
    /\ pc[p] = "idle"
    /\ requests < MaxRequests
    /\ requests' = requests + 1

\* the handler returns r: its locals are gone
Return(p, r) ==
    /\ pc' = [pc EXCEPT ![p] = "idle"]
    /\ response' = r
    /\ data' = [data EXCEPT ![p] = NoData]
    /\ verification_code' = [verification_code EXCEPT ![p] = NoCode]
    /\ expiration_time' = [expiration_time EXCEPT ![p] = 0]
    /\ created_at' = [created_at EXCEPT ![p] = 0]
    /\ expires_lt' = [expires_lt EXCEPT ![p] = 0]
    /\ verification' = [verification EXCEPT ![p] = <<>>]
    /\ game' = [game EXCEPT ![p] = <<>>]
    /\ pokes' = [pokes EXCEPT ![p] = <<>>]

\* the handler goes on to statement label
Goto(p, label) ==
    /\ pc' = [pc EXCEPT ![p] = label]
    /\ response' = NoResponse

(***************************************************************************)
(* send_verification_email and send_verification_email_v2                  *)
(***************************************************************************)
\* a handler that stores the code before it validates anything
\* request parsing, validate_email, the configuration check and generate_code(8)
IssueBegin(p, op, kind, email) ==
    /\ Receive(p)
    /\ UNCHANGED <<storeVars, clockVars, envVars>>
    /\ IF kind = "not_json_content_type"
       THEN Return(p, ErrorResponse(op, 400, "Content-Type must be application/json"))
       ELSE IF kind = "undecodable"
       THEN Return(p, ErrorResponse(op, 500, Unexpected("UnicodeDecodeError")))
       ELSE IF kind = "invalid_json"
       THEN Return(p, ErrorResponse(op, 400, "Invalid JSON format"))
       ELSE IF kind = "not_object"
       THEN Return(p, ErrorResponse(op, 400, "Request body must be a JSON object"))
       ELSE IF kind = "no_email"
       THEN Return(p, ErrorResponse(op, 400, "Email field is required"))
       ELSE IF kind = "email_not_str"
       THEN Return(p, ErrorResponse(op, 500, Unexpected("TypeError")))
       ELSE IF ~validate_email(email)
       THEN Return(p, ErrorResponse(op, 400, "Invalid email format"))
       ELSE IF ~GMAIL_USER \/ ~GMAIL_APP_PASSWORD
       THEN Return(p, ErrorResponse(op, 500, "Email configuration not found"))
       ELSE /\ \E c \in Codes : verification_code' = [verification_code EXCEPT ![p] = c]
            /\ data' = [data EXCEPT ![p] = [op |-> op, email |-> email]]
            /\ Goto(p, "expiration_time")
            /\ UNCHANGED <<expiration_time, created_at, expires_lt, verification, game, pokes>>

send_verification_email(p, emails) ==
    \E kind \in RawKinds : \E email \in emails :
        /\ kind # "ok" <=> email = <<>>
        /\ IssueBegin(p, "send_verification_email", kind, email)

send_verification_email_v2(p, emails) ==
    \E email \in emails : IssueBegin(p, "send_verification_email_v2", "ok", email)

\* expiration_time = datetime.utcnow() + timedelta(minutes=10)
IssueExpiration(p) ==
    /\ pc[p] = "expiration_time"
    /\ expiration_time' = [expiration_time EXCEPT ![p] = now + TTL]
    /\ Goto(p, "created_at")
    /\ UNCHANGED <<storeVars, restVars, data, verification_code, created_at, expires_lt,
                   verification, game, pokes>>

\* "created_at": datetime.utcnow(), read while the $set document is built
IssueCreatedAt(p) ==
    /\ pc[p] = "created_at"
    /\ created_at' = [created_at EXCEPT ![p] = now]
    /\ Goto(p, "update_one")
    /\ UNCHANGED <<storeVars, restVars, data, verification_code, expiration_time, expires_lt,
                   verification, game, pokes>>

\* verification_collection.update_one({"email": email}, {"$set": {...}}, upsert=True);
\* when the store call raises, the except clause answers and nothing is stored
IssueUpsert(p) ==
    /\ pc[p] = "update_one"
    /\ \/ /\ verification_collection' =
                 upsert_one(verification_collection, "email", data[p].email,
                            VerificationDoc(data[p].email, verification_code[p],
                                            expiration_time[p], created_at[p]))
          /\ Goto(p, "send_email")
          /\ UNCHANGED localVars
       \/ /\ Return(p, ErrorResponse(data[p].op, 500, Unexpected(StoreError)))
          /\ UNCHANGED verification_collection
    /\ UNCHANGED <<users_collection, games_collection, pokemon_collection, restVars>>

IssueOk(op, email) ==
    [op |-> op, status |-> 200, message |-> "Verification email sent successfully",
     code_sent |-> TRUE, email |-> email, expires_in_minutes |-> 10]

\* what the endpoint answers when send_email ends with outcome
IssueResult(op, email, outcome) ==
    IF outcome = "sent" THEN IssueOk(op, email)
    ELSE IF op = "send_verification_email" THEN ErrorResponse(op, 500, Unexpected(outcome))
    ELSE IF outcome = "SMTPAuthenticationError"
         THEN ErrorResponse(op, 500, "Gmail authentication failed")
    ELSE IF outcome = "SMTPException" THEN ErrorResponse(op, 500, "Failed to send email")
    ELSE ErrorResponse(op, 500, Unexpected(outcome))

\* a handler that takes the record back when the mail could not be sent
IssueSendUndoes(p) ==
    /\ pc[p] = "send_email"
    /\ \E outcome \in MailOutcomes :
           /\ Return(p, IssueResult(data[p].op, data[p].email, outcome))
           /\ verification_collection' =
                  IF outcome = "sent" THEN verification_collection
                  ELSE delete_one(verification_collection, "email", data[p].email)
    /\ UNCHANGED <<users_collection, games_collection, pokemon_collection, restVars>>

\* await send_email(...) and the return or except clause that follows
IssueSend(p) ==
    /\ pc[p] = "send_email"
    /\ \E outcome \in MailOutcomes :
           Return(p, IssueResult(data[p].op, data[p].email, outcome))
    /\ UNCHANGED <<storeVars, restVars>>

(***************************************************************************)
(* get_verification_code                                                   *)
(***************************************************************************)
LookupOp == "get_verification_code"

\* the request arrives; datetime.utcnow(), the argument of delete_many's filter, is
\* evaluated before the call
LookupBegin(p, email) ==
    /\ Receive(p)
    /\ data' = [data EXCEPT ![p] = [op |-> LookupOp, email |-> email]]
    /\ expires_lt' = [expires_lt EXCEPT ![p] = now]
    /\ Goto(p, "delete_many")
    /\ UNCHANGED <<storeVars, clockVars, envVars, verification_code, expiration_time,
                   created_at, verification, game, pokes>>

get_verification_code(p, emails) == \E email \in emails : LookupBegin(p, email)

\* a lookup whose purge removes one expired record, the first, and no more
LookupPurgeOne(p) ==
    /\ pc[p] = "delete_many"
    /\ verification_collection' =
           LET expired == { i \in 1..Len(verification_collection) :
                               verification_collection[i].expires_at < expires_lt[p] }
           IN IF expired = {} THEN verification_collection
              ELSE RemoveAt(verification_collection, Min(expired))
    /\ expires_lt' = [expires_lt EXCEPT ![p] = 0]
    /\ Goto(p, "find_one")
    /\ UNCHANGED <<users_collection, games_collection, pokemon_collection, restVars,
                   data, verification_code, expiration_time, created_at, verification,
                   game, pokes>>

\* except Exception as e: HTTPException(500, f"Database error: {str(e)}"), raised
\* when a store call of get_verification_code raises; the store is as it was
LookupRaises(p) ==
    /\ Return(p, ErrorResponse(LookupOp, 500, "Database error: PyMongoError"))
    /\ UNCHANGED verification_collection

\* verification_collection.delete_many({"expires_at": {"$lt": ...}}), applied by the
\* store with the instant read at the call
LookupPurge(p) ==
    /\ pc[p] = "delete_many"
    /\ \/ /\ verification_collection' =
                 delete_many_lt(verification_collection, "expires_at", expires_lt[p])
          /\ expires_lt' = [expires_lt EXCEPT ![p] = 0]
          /\ Goto(p, "find_one")
          /\ UNCHANGED <<data, verification_code, expiration_time, created_at,
                         verification, game, pokes>>
       \/ LookupRaises(p)
    /\ UNCHANGED <<users_collection, games_collection, pokemon_collection, restVars>>

\* a lookup that answers 410 for an email with no record
LookupFindExpired(p) ==
    /\ pc[p] = "find_one"
    /\ LET found == find_one(verification_collection, "email", data[p].email)
       IN IF found = <<>>
          THEN Return(p, ErrorResponse(LookupOp, 410, "Verification code has expired"))
          ELSE /\ verification' = [verification EXCEPT ![p] = found]
               /\ Goto(p, "check_expired")
               /\ UNCHANGED <<data, verification_code, expiration_time, created_at, expires_lt, game, pokes>>
    /\ UNCHANGED <<storeVars, restVars>>

\* verification = find_one({"email": data.email}); 404 when there is none
LookupFind(p) ==
    /\ pc[p] = "find_one"
    /\ \/ LET found == find_one(verification_collection, "email", data[p].email)
          IN IF found = <<>>
             THEN Return(p, ErrorResponse(LookupOp, 404,
                                          "No verification code found for this email"))
             ELSE /\ verification' = [verification EXCEPT ![p] = found]
                  /\ Goto(p, "check_expired")
                  /\ UNCHANGED <<data, verification_code, expiration_time, created_at, expires_lt,
                                 game, pokes>>
       \/ Return(p, ErrorResponse(LookupOp, 500, "Database error: PyMongoError"))
    /\ UNCHANGED <<storeVars, restVars>>

\* if verification["expires_at"] < datetime.utcnow()
LookupCheck(p) ==
    /\ pc[p] = "check_expired"
    /\ Goto(p, IF verification[p][1].expires_at < now THEN "delete_one" ELSE "remaining_time")
    /\ UNCHANGED <<storeVars, restVars, localVars>>

\* verification_collection.delete_one({"email": data.email}); 410
LookupDelete(p) ==
    /\ pc[p] = "delete_one"
    /\ \/ /\ verification_collection' =
                 delete_one(verification_collection, "email", data[p].email)
          /\ Return(p, ErrorResponse(LookupOp, 410, "Verification code has expired"))
       \/ LookupRaises(p)
    /\ UNCHANGED <<users_collection, games_collection, pokemon_collection,
                   restVars>>

LookupOk(email, code, minutes, created) ==
    [op |-> LookupOp, status |-> 200, email |-> email, code |-> code,
     expires_in_minutes |-> minutes, created_at |-> created]

\* remaining_time = expires_at - datetime.utcnow(); remaining_minutes; return
LookupReturn(p) ==
    /\ pc[p] = "remaining_time"
    /\ LET remaining_time == verification[p][1].expires_at - now
       IN Return(p, LookupOk(data[p].email, verification[p][1].code,
                             IntDiv(remaining_time, 60), verification[p][1].created_at))
    /\ UNCHANGED <<storeVars, restVars>>

(***************************************************************************)
(* signup and check_user.  The request is parsed into its pydantic model   *)
(* in a step of its own.                                                   *)
(***************************************************************************)
Usernames == {"ash", "misty"}

SignupEmails == {"ash@pallet.io", "misty@cerulean.io"}

\* SignupModel
SignupModel(email, username) ==
    [email |-> email, username |-> username, password |-> "pikachu", gender |-> "f"]

SignupReceive(p, email, username) ==
    /\ Receive(p)
    /\ data' = [data EXCEPT ![p] = SignupModel(email, username)]
    /\ Goto(p, "signup_find_email")
    /\ UNCHANGED <<storeVars, clockVars, envVars, verification_code, expiration_time, created_at, expires_lt,
                   verification, game, pokes>>

\* a signup that looks the username up before the email
SignupChecksUsernameFirst(p) ==
    /\ pc[p] = "signup_find_email"
    /\ IF find_one(users_collection, "username", data[p].username) # <<>>
       THEN Return(p, ErrorResponse("signup", 400, "Username already exists"))
       ELSE IF find_one(users_collection, "email", data[p].email) # <<>>
            THEN Return(p, ErrorResponse("signup", 400, "Email already exists"))
            ELSE /\ Goto(p, "signup_find_username")
                 /\ UNCHANGED localVars
    /\ UNCHANGED <<storeVars, restVars>>

\* if users_collection.find_one({"email": data.email}): 400
SignupFindEmail(p) ==
    /\ pc[p] = "signup_find_email"
    /\ IF find_one(users_collection, "email", data[p].email) # <<>>
       THEN Return(p, ErrorResponse("signup", 400, "Email already exists"))
       ELSE /\ Goto(p, "signup_find_username")
            /\ UNCHANGED localVars
    /\ UNCHANGED <<storeVars, restVars>>

\* if users_collection.find_one({"username": data.username}): 400
SignupFindUsername(p) ==
    /\ pc[p] = "signup_find_username"
    /\ IF find_one(users_collection, "username", data[p].username) # <<>>
       THEN Return(p, ErrorResponse("signup", 400, "Username already exists"))
       ELSE /\ Goto(p, "signup_insert")
            /\ UNCHANGED localVars
    /\ UNCHANGED <<storeVars, restVars>>

\* users_collection.insert_one(data.dict()); return
SignupInsert(p) ==
    /\ pc[p] = "signup_insert"
    /\ users_collection' = Append(users_collection, data[p])
    /\ Return(p, [op |-> "signup", status |-> 200, message |-> "Signup successful"])
    /\ UNCHANGED <<games_collection, pokemon_collection, verification_collection, restVars>>

signup(p) == \E email \in SignupEmails : \E username \in Usernames :
                 SignupReceive(p, email, username)

check_user(p) ==
    \E username \in Usernames :
        /\ Receive(p)
        /\ Return(p, [op |-> "check_user", status |-> 200,
                      exists |-> find_one(users_collection, "username", username) # <<>>])
        /\ UNCHANGED <<storeVars, clockVars, envVars>>

(***************************************************************************)
(* start_game, end_game, get_pokemons and add_pokemon.                     *)
(***************************************************************************)
\* generate_code() draws uniformly from [A-Z0-9]^6; the model draws from two codes
GameCodes == {"A1B2C3", "Z9Y8X7"}

\* the first two of POKEMON_NAMES
PokemonNames == {"Blazuma", "Cryospike"}

\* code = generate_code(); games_collection.insert_one({...}); return
start_game(p) ==
    \E user1 \in Usernames : \E user2 \in Usernames : \E code \in GameCodes :
        /\ Receive(p)
        /\ games_collection' =
               Append(games_collection,
                      [code |-> code, players |-> <<user1, user2>>, status |-> "active"])
        /\ Return(p, [op |-> "start_game", status |-> 200, code |-> code])
        /\ UNCHANGED <<users_collection, pokemon_collection, verification_collection,
                       clockVars, envVars>>

\* EndGameModel
EndGameReceive(p, code, show_pokemon) ==
    /\ Receive(p)
    /\ data' = [data EXCEPT ![p] = [code |-> code, show_pokemon |-> show_pokemon]]
    /\ Goto(p, "end_game_find")
    /\ UNCHANGED <<storeVars, clockVars, envVars, verification_code, expiration_time, created_at, expires_lt,
                   verification, game, pokes>>

end_game(p) == \E code \in GameCodes : \E show_pokemon \in BOOLEAN :
                   EndGameReceive(p, code, show_pokemon)

\* game = games_collection.find_one({"code": data.code}); 404 when there is none
EndGameFind(p) ==
    /\ pc[p] = "end_game_find"
    /\ LET found == find_one(games_collection, "code", data[p].code)
       IN IF found = <<>>
          THEN Return(p, ErrorResponse("end_game", 404, "Game not found"))
          ELSE /\ game' = [game EXCEPT ![p] = found]
               /\ Goto(p, "end_game_update")
               /\ UNCHANGED <<data, verification_code, expiration_time, created_at, expires_lt, verification, pokes>>
    /\ UNCHANGED <<storeVars, restVars>>

\* an end_game that flips the status it found instead of setting "ended"
EndGameReopens(p) ==
    /\ pc[p] = "end_game_update"
    /\ games_collection' =
           update_one(games_collection, "code", data[p].code,
                      [status |-> IF game[p][1].status = "ended" THEN "active" ELSE "ended"])
    /\ IF data[p].show_pokemon
       THEN /\ Goto(p, "end_game_pokemons_1")
            /\ UNCHANGED localVars
       ELSE Return(p, [op |-> "end_game", status |-> 200, message |-> "Game ended"])
    /\ UNCHANGED <<users_collection, pokemon_collection, verification_collection, restVars>>

\* games_collection.update_one({"code": data.code}, {"$set": {"status": "ended"}})
EndGameUpdate(p) ==
    /\ pc[p] = "end_game_update"
    /\ games_collection' =
           update_one(games_collection, "code", data[p].code, [status |-> "ended"])
    /\ IF data[p].show_pokemon
       THEN /\ Goto(p, "end_game_pokemons_1")
            /\ UNCHANGED localVars
       ELSE Return(p, [op |-> "end_game", status |-> 200, message |-> "Game ended"])
    /\ UNCHANGED <<users_collection, pokemon_collection, verification_collection, restVars>>

\* a roster lookup that ignores whose roster it finds
PokemonsOfAnyone(user) ==
    IF pokemon_collection = <<>> THEN <<>> ELSE pokemon_collection[1].pokemons

\* entry["pokemons"] if entry else [], for entry = find_one({"username": user})
PokemonsOf(user) ==
    LET entry == find_one(pokemon_collection, "username", user)
    IN IF entry = <<>> THEN <<>> ELSE entry[1].pokemons

\* the dict d after d[key] = value
DictSet(d, key, value) ==
    [k \in DOMAIN d \cup {key} |-> IF k = key THEN value ELSE d[k]]

\* the loop over game["players"]: one find_one per player, then the return
EndGamePokemons(p) ==
    /\ pc[p] \in {"end_game_pokemons_1", "end_game_pokemons_2"}
    /\ LET i == IF pc[p] = "end_game_pokemons_1" THEN 1 ELSE 2
           user == game[p][1].players[i]
           filled == DictSet(pokes[p], user, PokemonsOf(user))
       IN IF i = 1
          THEN /\ pokes' = [pokes EXCEPT ![p] = filled]
               /\ Goto(p, "end_game_pokemons_2")
               /\ UNCHANGED <<data, verification_code, expiration_time, created_at, expires_lt, verification, game>>
          ELSE Return(p, [op |-> "end_game", status |-> 200, message |-> "Game ended",
                          pokemons |-> filled])
    /\ UNCHANGED <<storeVars, restVars>>

GetPokemons(p, username) ==
    /\ Receive(p)
    /\ Return(p, [op |-> "get_pokemons", status |-> 200,
                  pokemons |-> PokemonsOf(username)])
    /\ UNCHANGED <<storeVars, clockVars, envVars>>

get_pokemons(p) == \E username \in Usernames : GetPokemons(p, username)

\* a Creature as add_pokemon creates it
NewPokemon(name) == [name |-> name, level |-> 1, health |-> 100, power |-> 10]

\* a $push without upsert: nothing is created for a user with no roster
push_no_upsert(coll, username, creature) ==
    IF Matches(coll, "username", username) = {}
    THEN coll
    ELSE [coll EXCEPT ![Min(Matches(coll, "username", username))].pokemons =
              Append(@, creature)]

\* update_one({"username": u}, {"$push": {"pokemons": creature}}, upsert=True)
push_upsert(coll, username, creature) ==
    IF Matches(coll, "username", username) = {}
    THEN Append(coll, [username |-> username, pokemons |-> <<creature>>])
    ELSE [coll EXCEPT ![Min(Matches(coll, "username", username))].pokemons =
              Append(@, creature)]

AddPokemon(p, username, pokemon) ==
    /\ Receive(p)
    /\ pokemon_collection' = push_upsert(pokemon_collection, username, NewPokemon(pokemon))
    /\ Return(p, [op |-> "add_pokemon", status |-> 200, message |-> "Pokemon added"])
    /\ UNCHANGED <<users_collection, games_collection, verification_collection,
                   clockVars, envVars>>

add_pokemon(p) ==
    \E username \in Usernames : \E pokemon \in PokemonNames :
        AddPokemon(p, username, pokemon)

\* a $pull that stops at the first element it removes
pull_first(coll, username, name) ==
    IF Matches(coll, "username", username) = {}
    THEN coll
    ELSE LET i == Min(Matches(coll, "username", username))
             named == { j \in 1..Len(coll[i].pokemons) : coll[i].pokemons[j].name = name }
         IN IF named = {} THEN coll
            ELSE [coll EXCEPT ![i].pokemons = RemoveAt(@, Min(named))]

\* update_one({"username": u}, {"$pull": {"pokemons": {"name": name}}})
pull_one(coll, username, name) ==
    IF Matches(coll, "username", username) = {}
    THEN coll
    ELSE [coll EXCEPT ![Min(Matches(coll, "username", username))].pokemons =
              SelectSeq(@, LAMBDA creature : creature.name # name)]

RemovePokemon(p, username, pokemon) ==
    /\ Receive(p)
    /\ pokemon_collection' = pull_one(pokemon_collection, username, pokemon)
    /\ Return(p, [op |-> "remove_pokemon", status |-> 200, message |-> "Pokemon removed"])
    /\ UNCHANGED <<users_collection, games_collection, verification_collection,
                   clockVars, envVars>>

remove_pokemon(p) ==
    \E username \in Usernames : \E pokemon \in PokemonNames :
        RemovePokemon(p, username, pokemon)

\* PokemonDataModel.key: a field add_pokemon sets and one it does not
Keys == {"level", "speed"}

\* PokemonDataModel.value
Values == {7}

\* the documents matching {"username": username, "pokemons.name": name}
MatchesNamed(coll, username, name) ==
    { i \in Matches(coll, "username", username) :
          \E j \in 1..Len(coll[i].pokemons) : coll[i].pokemons[j].name = name }

\* a $set that reaches every array element with the name
set_every(coll, username, name, key, value) ==
    IF MatchesNamed(coll, username, name) = {}
    THEN coll
    ELSE [coll EXCEPT ![Min(MatchesNamed(coll, username, name))].pokemons =
              [j \in 1..Len(@) |->
                   IF @[j].name = name THEN SetFields(@[j], [k \in {key} |-> value])
                   ELSE @[j]]]

\* update_one({"username": u, "pokemons.name": name}, {"$set": {"pokemons.$.<key>": value}})
set_positional(coll, username, name, key, value) ==
    IF MatchesNamed(coll, username, name) = {}
    THEN coll
    ELSE LET i == Min(MatchesNamed(coll, username, name))
             j == Min({ k \in 1..Len(coll[i].pokemons) : coll[i].pokemons[k].name = name })
         IN [coll EXCEPT ![i].pokemons[j] = SetFields(@, [k \in {key} |-> value])]

UpdatePokemonData(p, username, pokemon, key, value) ==
    /\ Receive(p)
    /\ pokemon_collection' = set_positional(pokemon_collection, username, pokemon, key, value)
    /\ Return(p, [op |-> "update_pokemon_data", status |-> 200,
                  message |-> <<key, "updated for", pokemon>>])
    /\ UNCHANGED <<users_collection, games_collection, verification_collection,
                   clockVars, envVars>>

update_pokemon_data(p) ==
    \E username \in Usernames : \E pokemon \in PokemonNames :
        \E key \in Keys : \E value \in Values :
            UpdatePokemonData(p, username, pokemon, key, value)

(***************************************************************************)
(* Spec: send_verification_email_v2 and get_verification_code, served       *)
(* concurrently.  send_verification_email differs from the v2 endpoint in  *)
(* its first step and in the wording of its answers only, and is served in *)
(* SpecSeq and SpecIssue.                                                  *)
(***************************************************************************)
Unobserved(step) == step /\ UNCHANGED history

ClockStep == Unobserved(Tick)

Next ==
    \/ ClockStep
    \/ \E p \in Procs : Unobserved(send_verification_email_v2(p, Emails))
    \/ \E p \in Procs : Unobserved(IssueExpiration(p))
    \/ \E p \in Procs : Unobserved(IssueCreatedAt(p))
    \/ \E p \in Procs : Unobserved(IssueUpsert(p))
    \/ \E p \in Procs : Unobserved(IssueSend(p))
    \/ \E p \in Procs : Unobserved(get_verification_code(p, Emails))
    \/ \E p \in Procs : Unobserved(LookupPurge(p))
    \/ \E p \in Procs : Unobserved(LookupFind(p))
    \/ \E p \in Procs : Unobserved(LookupCheck(p))
    \/ \E p \in Procs : Unobserved(LookupDelete(p))
    \/ \E p \in Procs : Unobserved(LookupReturn(p))

Spec == Init /\ [][Next]_vars

(***************************************************************************)
(* SpecSeq: the verification endpoints used by one client, which waits for *)
(* each response before it sends its next request.  history is the last   *)
(* exchange completed: the email asked (<<>> for a body that carries no    *)
(* string email), the answer, the statement the handler returned from, and *)
(* the code and expiry it had in hand on return (for a lookup, the code it *)
(* answered and the expiry of the record it found); history.arrived is the *)
(* instant the client's latest request arrived.                            *)
(***************************************************************************)
Client == Min(Procs)

\* the bodies of /send-verification-email: those with an email, and those without
Bodies(emails) == emails \cup {<<>>}

Exchange(p, email) ==
    [op |-> response'.op,
     status |-> response'.status,
     email |-> email,
     arrived |-> IF pc[p] = "idle" THEN now ELSE history.arrived,
     at |-> pc[p],
     code |-> IF response'.op = LookupOp
              THEN (IF response'.status = 200 THEN response'.code ELSE NoCode)
              ELSE verification_code[p],
     expires_at |-> IF response'.op = LookupOp
                    THEN (IF verification[p] = <<>> THEN 0 ELSE verification[p][1].expires_at)
                    ELSE expiration_time[p]]

\* the arrival of a request for email and the first step of its handler
Arrives(step, email) ==
    /\ step
    /\ history' = IF pc'[Client] = "idle" THEN Exchange(Client, email)
                  ELSE [history EXCEPT !.arrived = now]

\* a later step of the handler
Observed(step) ==
    /\ step
    /\ history' = IF pc'[Client] = "idle" THEN Exchange(Client, data[Client].email)
                  ELSE history

NextSeq ==
    \/ ClockStep
    \/ \E email \in Bodies(Emails) : Arrives(send_verification_email(Client, {email}), email)
    \/ \E email \in Emails : Arrives(send_verification_email_v2(Client, {email}), email)
    \/ Observed(IssueExpiration(Client))
    \/ Observed(IssueCreatedAt(Client))
    \/ Observed(IssueUpsert(Client))
    \/ Observed(IssueSend(Client))
    \/ \E email \in Emails : Arrives(get_verification_code(Client, {email}), email)
    \/ Observed(LookupPurge(Client))
    \/ Observed(LookupFind(Client))
    \/ Observed(LookupCheck(Client))
    \/ Observed(LookupDelete(Client))
    \/ Observed(LookupReturn(Client))

SpecSeq == Init /\ [][NextSeq]_vars

(***************************************************************************)
(* SpecIssue: the two endpoints that issue codes, used by one client with  *)
(* every kind of body and every email of InputEmails.                      *)
(***************************************************************************)
NextIssue ==
    \/ ClockStep
    \/ \E email \in Bodies(InputEmails) :
           Arrives(send_verification_email(Client, {email}), email)
    \/ \E email \in InputEmails :
           Arrives(send_verification_email_v2(Client, {email}), email)
    \/ Observed(IssueExpiration(Client))
    \/ Observed(IssueCreatedAt(Client))
    \/ Observed(IssueUpsert(Client))
    \/ Observed(IssueSend(Client))

SpecIssue == Init /\ [][NextIssue]_vars

(***************************************************************************)
(* SpecAccount: signup and check_user, served concurrently.                *)
(***************************************************************************)
NextAccount ==
    \/ \E p \in Procs : Unobserved(signup(p))
    \/ \E p \in Procs : Unobserved(SignupFindEmail(p))
    \/ \E p \in Procs : Unobserved(SignupFindUsername(p))
    \/ \E p \in Procs : Unobserved(SignupInsert(p))
    \/ \E p \in Procs : Unobserved(check_user(p))

SpecAccount == Init /\ [][NextAccount]_vars

(***************************************************************************)
(* SpecGame: the game and roster endpoints, served concurrently.           *)
(***************************************************************************)
NextGame ==
    \/ \E p \in Procs : Unobserved(start_game(p))
    \/ \E p \in Procs : Unobserved(end_game(p))
    \/ \E p \in Procs : Unobserved(EndGameFind(p))
    \/ \E p \in Procs : Unobserved(EndGameUpdate(p))
    \/ \E p \in Procs : Unobserved(EndGamePokemons(p))
    \/ \E p \in Procs : Unobserved(get_pokemons(p))
    \/ \E p \in Procs : Unobserved(add_pokemon(p))

SpecGame == Init /\ [][NextGame]_vars

(***************************************************************************)
(* SpecGameSeq: the game endpoints and add_pokemon, one request at a time. *)
(***************************************************************************)
NextGameSeq ==
    \/ Unobserved(start_game(Client))
    \/ Unobserved(end_game(Client))
    \/ Unobserved(EndGameFind(Client))
    \/ Unobserved(EndGameUpdate(Client))
    \/ Unobserved(EndGamePokemons(Client))
    \/ Unobserved(add_pokemon(Client))

SpecGameSeq == Init /\ [][NextGameSeq]_vars

(***************************************************************************)
(* SpecRoster: the roster endpoints, one request at a time.                *)
(***************************************************************************)
NextRoster ==
    \/ Unobserved(get_pokemons(Client))
    \/ Unobserved(add_pokemon(Client))
    \/ Unobserved(remove_pokemon(Client))
    \/ Unobserved(update_pokemon_data(Client))

SpecRoster == Init /\ [][NextRoster]_vars

(***************************************************************************)
(* Properties of the verification endpoints.                               *)
(***************************************************************************)
\* the documents the verification collection holds for email
Records(email) ==
    { verification_collection[i] :
          i \in Matches(verification_collection, "email", email) }

\* the client's get_verification_code has had its purge applied
PastPurge == pc[Client] \in {"find_one", "check_expired", "delete_one", "remaining_time"}

\* the client is inside get_verification_code
InLookup == pc[Client] = "delete_many" \/ PastPurge

\* this step is the return of a get_verification_code for the email that the
\* client's previous request, a successful send_verification_email*, was for
LookupReturnsAfterIssue ==
    /\ InLookup
    /\ pc'[Client] = "idle"
    /\ history.op \in IssueEndpoints
    /\ history.status = 200
    /\ history.email = data[Client].email

\* C1, as claimed: IssueCode(E) followed within a minute by LookupCode(E) succeeds,
\* returns the code that IssueCode stored, and returns 10 remaining minutes (the
\* lookup's store calls not raising).
C1_IssueThenLookupReturnsTen ==
    [][ ( /\ LookupReturnsAfterIssue
          /\ now - (history.expires_at - TTL) < 60
          /\ response'.status # 500 )
            => /\ response'.status = 200
               /\ response'.code = history.code
               /\ response'.expires_in_minutes = 10 ]_vars

\* C1, amended: IssueCode(E) followed by LookupCode(E) succeeds whenever the stored
\* expires_at has not passed when the lookup returns; when it succeeds it returns
\* the code that IssueCode stored and the minutes left truncated toward zero, which
\* are 10 only if the clock has not advanced since IssueCode computed expires_at,
\* and 9 after any advance of at most a minute. The one other answer is 500
\* "Database error", given when a store call of the lookup raises.
C1_IssueThenLookupTruncates ==
    [][ LookupReturnsAfterIssue
            => LET left == history.expires_at - now
                   elapsed == now - (history.expires_at - TTL)
               IN /\ left >= 0 => response'.status \in {200, 500}
                  /\ response'.status = 500
                         => response'.error = "Database error: PyMongoError"
                  /\ response'.status = 200 =>
                        LET m == response'.expires_in_minutes
                        IN /\ response'.code = history.code
                           /\ left >= 0 => (60 * m <= left /\ left < 60 * (m + 1))
                           /\ left < 0 => (60 * (m - 1) < left /\ left <= 60 * m)
                           /\ m = 10 <=> elapsed = 0
                           /\ (0 < elapsed /\ elapsed <= 60) => m = 9 ]_vars

\* C1 witness: a lookup has just returned the code of a record issued less than a
\* minute before, with 9 minutes left.
C1_Witness ==
    /\ response.op = LookupOp
    /\ response.status = 200
    /\ response.expires_in_minutes = 9
    /\ \E d \in Records(response.email) :
           /\ d.code = response.code
           /\ now - (d.expires_at - TTL) < 60
           /\ now - (d.expires_at - TTL) > 0

\* C2: once a send_verification_email* has written, the store holds for its email
\* exactly one record, with this call's code and expires_at and a created_at taken
\* during this call, whatever record a previous call left (expired or not); and a
\* lookup that follows finds this call's code.
C2_SecondIssueReplacesFirst ==
    /\ pc[Client] = "send_email" =>
           /\ Cardinality(Records(data[Client].email)) = 1
           /\ \A d \in Records(data[Client].email) :
                  /\ d.code = verification_code[Client]
                  /\ d.expires_at = expiration_time[Client]
                  /\ history.arrived <= d.created_at
                  /\ d.created_at <= now
    /\ ( /\ pc[Client] \in {"check_expired", "delete_one", "remaining_time"}
         /\ history.op \in IssueEndpoints
         /\ history.at = "send_email"
         /\ history.email = data[Client].email )
           => /\ verification[Client][1].code = history.code
              /\ verification[Client][1].expires_at = history.expires_at

\* C2 witness: the previous call issued a code for E that has not expired, and this
\* call has replaced it by a different code.
C2_Witness ==
    /\ pc[Client] = "send_email"
    /\ history.op \in IssueEndpoints
    /\ history.status = 200
    /\ history.email = data[Client].email
    /\ history.code # verification_code[Client]
    /\ history.expires_at >= now
    /\ \E d \in Records(data[Client].email) : d.code = verification_code[Client]

\* C3: a lookup never holds a record that had expired when the lookup arrived; once
\* its purge is applied, and when it has answered anything but 500 "Database
\* error", the store holds no such record for the email asked for; it answers 200,
\* 404, 410 or, when a store call raised, 500; and the record behind a 200 was
\* unexpired on arrival.
C3_ExpiredIsUnreachable ==
    /\ PastPurge =>
           \A d \in Records(data[Client].email) : ~(d.expires_at < history.arrived)
    /\ pc[Client] \in {"check_expired", "delete_one", "remaining_time"} =>
           ~(verification[Client][1].expires_at < history.arrived)
    /\ response.op = LookupOp =>
           /\ response.status \in {200, 404, 410, 500}
           /\ response.status = 500 => response.error = "Database error: PyMongoError"
           /\ response.status # 500 =>
                  \A d \in Records(history.email) : ~(d.expires_at < history.arrived)
           /\ response.status = 200 => ~(history.expires_at < history.arrived)

\* C3 witness: the previous call issued a code for E, it expired before this lookup
\* of E arrived, and the lookup has removed it.
C3_Witness ==
    /\ pc[Client] = "find_one"
    /\ history.op \in IssueEndpoints
    /\ history.at = "send_email"
    /\ history.email = data[Client].email
    /\ history.expires_at < history.arrived
    /\ Records(data[Client].email) = {}

\* C4: the verification collection never holds two records with the same email.
C4_OneRecordPerEmail ==
    \A i \in 1..Len(verification_collection) : \A j \in 1..Len(verification_collection) :
        i # j => verification_collection[i].email # verification_collection[j].email

\* C4 witness: two concurrent calls have both written a record for the same email.
C4_Witness ==
    /\ \A p \in Procs : pc[p] = "send_email"
    /\ \A p \in Procs : \A q \in Procs : data[p].email = data[q].email
    /\ Len(verification_collection) = 1

\* C5, as claimed: every stored record has expires_at = created_at + 10 minutes.
C5_ExpiresTenMinutesAfterCreation ==
    \A i \in 1..Len(verification_collection) :
        verification_collection[i].expires_at = verification_collection[i].created_at + TTL

\* C7, as claimed: when two concurrent calls for one email have both written, the
\* record in the store carries the later of their two expires_at.
C7_LaterTimestampsWin ==
    ( /\ \A p \in Procs : pc[p] = "send_email"
      /\ \A p \in Procs : \A q \in Procs : data[p].email = data[q].email )
        => \A p \in Procs : \A d \in Records(data[p].email) :
               \A q \in Procs : d.expires_at >= expiration_time[q]

\* C7, amended: the last write wins. Every upsert leaves for its email exactly the
\* writer's record (its code, its expires_at and the created_at it read just before
\* the write), so after two concurrent calls the store holds the record of the call
\* whose write was applied last, whose expires_at and created_at may both be the
\* earlier of the two.
C7_LastWriteWins ==
    [][ \A p \in Procs :
            (pc[p] = "update_one" /\ pc'[p] = "send_email")
                => { verification_collection'[i] :
                         i \in Matches(verification_collection', "email", data[p].email) }
                   = { VerificationDoc(data[p].email, verification_code[p],
                                       expiration_time[p], created_at[p]) } ]_vars

\* C7 witness: two concurrent calls for one email have both written, and the record
\* left carries the earlier expires_at.
C7_Witness ==
    /\ \A p \in Procs : pc[p] = "send_email"
    /\ \A p \in Procs : \A q \in Procs : data[p].email = data[q].email
    /\ \E p \in Procs : \E d \in Records(data[p].email) :
           \E q \in Procs : d.expires_at < expiration_time[q]

\* C8: when send_verification_email* answers 500 from its send_email (the mail
\* sender failed), the store still holds for its email exactly the record this call
\* wrote; a call returns from its send_email with 200 or 500; and a call that is at
\* its send has already written.
C8_RecordKeptWhenMailFails ==
    /\ ( /\ response.op \in IssueEndpoints
         /\ response.status = 500
         /\ history.at = "send_email" )
           => /\ Cardinality(Records(history.email)) = 1
              /\ \A d \in Records(history.email) :
                     /\ d.code = history.code
                     /\ d.expires_at = history.expires_at
                     /\ history.arrived <= d.created_at
    /\ ( /\ response.op \in IssueEndpoints
         /\ history.at = "send_email" )
           => /\ response.status \in {200, 500}
              /\ response.status = 200 <=> response = IssueOk(response.op, history.email)
    /\ pc[Client] = "send_email" => Records(data[Client].email) # {}

\* C8 witness: the mail sender rejected the login, the call answered 500, and the
\* record it wrote is in the store.
C8_Witness ==
    /\ response.op = "send_verification_email_v2"
    /\ response.status = 500
    /\ response.error = "Gmail authentication failed"
    /\ \E d \in Records(history.email) : d.code = history.code

(***************************************************************************)
(* Properties of signup.                                                   *)
(***************************************************************************)
\* C6, as claimed: in every reachable state, concurrent signups included, no two
\* accounts share an email and no two accounts share a username.
C6_AccountsUnique ==
    \A i \in 1..Len(users_collection) : \A j \in 1..Len(users_collection) :
        i # j => /\ users_collection[i].email # users_collection[j].email
                 /\ users_collection[i].username # users_collection[j].username

\* C6 witness: two signups for one email and one username have both passed both
\* lookups before either has inserted.
C6_Witness ==
    /\ \A p \in Procs : pc[p] = "signup_insert"
    /\ \A p \in Procs : \A q \in Procs : data[p] = data[q]

\* C9: a signup whose email is held by an account is answered "Email already
\* exists", whether or not its username is held too; a signup that passed the email
\* lookup and whose username is held is answered "Username already exists"; and a
\* signup answered with an error has left the accounts as they were.
C9_DuplicatesRejectedEmailFirst ==
    [][ \A p \in Procs :
            /\ ( /\ pc[p] = "signup_find_email"
                 /\ pc'[p] # pc[p]
                 /\ find_one(users_collection, "email", data[p].email) # <<>> )
                   => /\ response' = ErrorResponse("signup", 400, "Email already exists")
                      /\ users_collection' = users_collection
            /\ ( /\ pc[p] = "signup_find_username"
                 /\ pc'[p] # pc[p]
                 /\ find_one(users_collection, "username", data[p].username) # <<>> )
                   => /\ response' = ErrorResponse("signup", 400, "Username already exists")
                      /\ users_collection' = users_collection
            /\ ( /\ pc[p] \in {"signup_find_email", "signup_find_username", "signup_insert"}
                 /\ pc'[p] = "idle"
                 /\ response'.status # 200 )
                   => users_collection' = users_collection ]_vars

\* C9 witness: every username is held by an account and a signup has just been
\* answered "Email already exists": both its email and its username were taken.
C9_Witness ==
    /\ response = ErrorResponse("signup", 400, "Email already exists")
    /\ \A u \in Usernames : find_one(users_collection, "username", u) # <<>>
    /\ Len(users_collection) = Cardinality(Usernames)

(***************************************************************************)
(* Properties of start_game and end_game.                                  *)
(***************************************************************************)
\* C10: a game is never deleted and keeps its code and players; its status is
\* "active" or "ended", and once "ended" it is "ended" after every step; end_game
\* on a game it found already ended writes "ended" again and is answered 200.
C10_StatusOnlyMovesToEnded ==
    [][ /\ Len(games_collection') >= Len(games_collection)
        /\ \A i \in 1..Len(games_collection) :
               /\ games_collection'[i].code = games_collection[i].code
               /\ games_collection'[i].players = games_collection[i].players
               /\ games_collection'[i].status \in {"active", "ended"}
               /\ games_collection[i].status = "ended"
                      => games_collection'[i].status = "ended"
        /\ \A p \in Procs :
               ( /\ pc[p] \in {"end_game_update", "end_game_pokemons_1", "end_game_pokemons_2"}
                 /\ pc'[p] # pc[p]
                 /\ game[p][1].status = "ended" )
                   => /\ find_one(games_collection', "code", data[p].code)[1].status = "ended"
                      /\ pc'[p] = "idle" => response'.status = 200 ]_vars

\* C10 witness: an end_game that found its game already ended has written the
\* status again, and the game is still ended.
C10_Witness ==
    \E p \in Procs :
        /\ pc[p] = "end_game_pokemons_1"
        /\ game[p][1].status = "ended"
        /\ find_one(games_collection, "code", data[p].code)[1].status = "ended"

(***************************************************************************)
(* Properties of the roster endpoints.                                     *)
(***************************************************************************)
HasRoster(coll, username) == Matches(coll, "username", username) # {}

\* the creatures of username's roster in coll, none when there is no roster
Roster(coll, username) ==
    IF HasRoster(coll, username)
    THEN coll[Min(Matches(coll, "username", username))].pokemons
    ELSE <<>>

\* the rosters of everyone but username are the same in both collections
OtherRostersSame(before, after, username) ==
    \A v \in Usernames \ {username} :
        /\ HasRoster(after, v) <=> HasRoster(before, v)
        /\ Roster(after, v) = Roster(before, v)

\* C11: remove_pokemon(u, n) leaves in u's roster exactly the creatures not named
\* n, unchanged and in their order, so every creature named n is gone; it creates
\* no roster and touches no other roster, answers 200 when there is no roster or
\* no creature named n, and a roster holding only creatures named n is left empty.
C11_RemoveTakesEveryMatch ==
    [][ \A u \in Usernames : \A n \in PokemonNames :
            RemovePokemon(Client, u, n)
                => /\ Roster(pokemon_collection', u)
                          = SelectSeq(Roster(pokemon_collection, u),
                                      LAMBDA creature : creature.name # n)
                   /\ \A j \in 1..Len(Roster(pokemon_collection', u)) :
                          Roster(pokemon_collection', u)[j].name # n
                   /\ HasRoster(pokemon_collection', u) <=> HasRoster(pokemon_collection, u)
                   /\ Len(pokemon_collection') = Len(pokemon_collection)
                   /\ OtherRostersSame(pokemon_collection, pokemon_collection', u)
                   /\ response'.status = 200 ]_vars

\* C11 witness: one add_pokemon and then one remove_pokemon have been served, and
\* the roster the add created is empty.
C11_Witness ==
    /\ response.op = "remove_pokemon"
    /\ requests = 2
    /\ \E u \in Usernames :
           /\ HasRoster(pokemon_collection, u)
           /\ Roster(pokemon_collection, u) = <<>>

\* C12: add_pokemon(u, n) appends the one creature {n, level 1, health 100, power
\* 10} at the end of u's roster, which exists afterwards, and leaves the creatures
\* already there and every other roster unchanged; get_pokemons(u) answers u's
\* roster, empty when there is none, and changes nothing.
C12_AddAppendsOneDefaultCreature ==
    [][ \A u \in Usernames :
            /\ \A n \in PokemonNames :
                   AddPokemon(Client, u, n)
                       => /\ Roster(pokemon_collection', u)
                                 = Append(Roster(pokemon_collection, u),
                                          [name |-> n, level |-> 1, health |-> 100,
                                           power |-> 10])
                          /\ HasRoster(pokemon_collection', u)
                          /\ Cardinality(Matches(pokemon_collection', "username", u)) = 1
                          /\ OtherRostersSame(pokemon_collection, pokemon_collection', u)
                          /\ response'.status = 200
            /\ GetPokemons(Client, u)
                   => /\ response'.pokemons = Roster(pokemon_collection, u)
                      /\ response'.status = 200
                      /\ pokemon_collection' = pokemon_collection ]_vars

\* C12 witness: add_pokemon on a user with no roster and then get_pokemons have
\* been served, and the answer is the one default creature.
C12_Witness ==
    /\ response.op = "get_pokemons"
    /\ requests = 2
    /\ response.pokemons
           = << [name |-> "Blazuma", level |-> 1, health |-> 100, power |-> 10] >>

\* C18: update_pokemon_data(u, n, key, value) sets key to value on the first
\* creature named n of u's roster and changes nothing else: the other fields of
\* that creature, every other creature (later ones named n too), the roster's
\* length and order and every other roster stay; with no roster or no creature
\* named n nothing changes and no roster is created.
C18_UpdateSetsFirstMatchOnly ==
    [][ \A u \in Usernames : \A n \in PokemonNames : \A key \in Keys : \A value \in Values :
            UpdatePokemonData(Client, u, n, key, value)
                => LET before == Roster(pokemon_collection, u)
                       after == Roster(pokemon_collection', u)
                       named == { j \in 1..Len(before) : before[j].name = n }
                   IN /\ Len(pokemon_collection') = Len(pokemon_collection)
                      /\ HasRoster(pokemon_collection', u) <=> HasRoster(pokemon_collection, u)
                      /\ OtherRostersSame(pokemon_collection, pokemon_collection', u)
                      /\ Len(after) = Len(before)
                      /\ named = {} => pokemon_collection' = pokemon_collection
                      /\ \A j \in 1..Len(before) :
                             IF j \in named /\ \A k \in named : j <= k
                             THEN /\ after[j][key] = value
                                  /\ DOMAIN after[j] = DOMAIN before[j] \cup {key}
                                  /\ \A f \in DOMAIN before[j] \ {key} :
                                         after[j][f] = before[j][f]
                             ELSE after[j] = before[j] ]_vars

\* C18 witness: an update has been served and a roster holds two creatures of one
\* name of which only the first carries the new value.
C18_Witness ==
    /\ response.op = "update_pokemon_data"
    /\ \E u \in Usernames : \E key \in Keys : \E value \in Values :
           LET r == Roster(pokemon_collection, u)
           IN /\ Len(r) = 2
              /\ r[1].name = r[2].name
              /\ key \in DOMAIN r[1]
              /\ r[1][key] = value
              /\ r[2] = NewPokemon(r[2].name)

(***************************************************************************)
(* Further properties of the verification endpoints.                       *)
(***************************************************************************)
\* the documents of a collection, as a set
Docs(coll) == { coll[i] : i \in 1..Len(coll) }

\* C13: a lookup whose find_one meets no record for its email is answered 404 (500
\* "Database error" when the store call raises) and leaves the store as it is, and
\* the purge that every lookup starts with adds no record; so a lookup for an email
\* with no record fails NotFound and creates none.
C13_LookupWithoutRecordIsNotFound ==
    [][ /\ \A email \in Emails :
               LookupBegin(Client, email)
                   => verification_collection' = verification_collection
        /\ LookupPurge(Client)
               => Docs(verification_collection') \subseteq Docs(verification_collection)
        /\ ( /\ pc[Client] = "find_one"
             /\ pc'[Client] # pc[Client]
             /\ Records(data[Client].email) = {} )
               => /\ response' \in
                         { ErrorResponse(LookupOp, 404,
                                         "No verification code found for this email"),
                           ErrorResponse(LookupOp, 500, "Database error: PyMongoError") }
                  /\ verification_collection' = verification_collection ]_vars

\* C13 witness: no time has passed, nothing was ever stored, and a lookup has been
\* answered 404.
C13_Witness ==
    /\ response.op = LookupOp
    /\ response.status = 404
    /\ verification_collection = <<>>
    /\ ticks = 0

\* C15, as claimed: a record leaves the store only when it is expired at that
\* moment: whenever an email has records before a step and none after it, those
\* records had expires_at < now.
C15_OnlyExpiredRecordsAreRemoved ==
    [][ \A email \in Emails :
            ( /\ Records(email) # {}
              /\ Matches(verification_collection', "email", email) = {} )
                => \A d \in Records(email) : d.expires_at < now ]_vars

\* C15 witness: a lookup that found an expired record is about to delete_one by
\* email while the store holds a newer record of that email, not yet expired.
C15_Witness ==
    \E p \in Procs :
        /\ pc[p] = "delete_one"
        /\ \E d \in Records(data[p].email) :
               /\ d.expires_at >= now
               /\ d # verification[p][1]

\* C16: every lookup, whatever email it asks for, begins by reading the clock and
\* goes on to its purge before anything else; the purge removes exactly the records
\* of all emails with expires_at before the instant the lookup read, unless the
\* store call raises and the lookup is answered 500 "Database error" with the store
\* as it was; and no step of the lookup touches a record of another email that has
\* not expired.
C16_LookupPurgesAllExpired ==
    [][ /\ \A email \in Emails :
               LookupBegin(Client, email)
                   => /\ pc'[Client] = "delete_many"
                      /\ expires_lt'[Client] = now
                      /\ verification_collection' = verification_collection
        /\ LookupPurge(Client)
               => IF pc'[Client] = "find_one"
                  THEN /\ \A d \in Docs(verification_collection') :
                              d.expires_at >= expires_lt[Client]
                       /\ \A d \in Docs(verification_collection) :
                              d.expires_at >= expires_lt[Client]
                                  => d \in Docs(verification_collection')
                       /\ Docs(verification_collection')
                              \subseteq Docs(verification_collection)
                  ELSE /\ response' = ErrorResponse(LookupOp, 500,
                                                    "Database error: PyMongoError")
                       /\ verification_collection' = verification_collection
        /\ (InLookup /\ pc'[Client] # pc[Client])
               => \A d \in Docs(verification_collection) :
                      (d.email # data[Client].email /\ d.expires_at >= now)
                          => d \in Docs(verification_collection') ]_vars

\* C16 witness: the store held the records of two emails; a lookup of one of them has
\* purged, found its record expired, deleted it and answered 410, and the record of
\* the other email, not expired, is still in the store.
C16_Witness ==
    /\ response.op = LookupOp
    /\ response.status = 410
    /\ Records(history.email) = {}
    /\ \E d \in Docs(verification_collection) :
           /\ d.email # history.email
           /\ d.expires_at >= now

\* the address pattern of the issue operation, matched against the whole of email
SyntacticallyValid(email) == FullMatch(email, Len(email))

\* C17, as claimed: an issue request whose email is not a syntactically valid
\* address (not a string, or a string that is not wholly local-part, "@", domain,
\* ".", TLD) is answered 400 "Invalid email format", and one with a valid address
\* while GMAIL_USER or GMAIL_APP_PASSWORD is unset is answered 500 "Email
\* configuration not found"; either way the handler returns in that step and the
\* four collections are as they were.
C17_RejectedIssueWritesNothing ==
    [][ \A op \in IssueEndpoints : \A kind \in {"email_not_str", "ok"} :
            \A email \in InputEmails \cup {<<>>} :
                IssueBegin(Client, op, kind, email)
                    => /\ (kind = "email_not_str" \/ ~SyntacticallyValid(email))
                              => /\ response' = ErrorResponse(op, 400,
                                                              "Invalid email format")
                                 /\ pc'[Client] = "idle"
                                 /\ UNCHANGED storeVars
                       /\ ( /\ kind = "ok"
                            /\ SyntacticallyValid(email)
                            /\ ~GMAIL_USER \/ ~GMAIL_APP_PASSWORD )
                              => /\ response' = ErrorResponse(op, 500,
                                                     "Email configuration not found")
                                 /\ pc'[Client] = "idle"
                                 /\ UNCHANGED storeVars ]_vars

\* C17 witness: the store holds a record for an email that is not a syntactically
\* valid address, and the issue request that wrote it has been answered 200.
C17_Witness ==
    /\ response.op \in IssueEndpoints
    /\ response.status = 200
    /\ \E d \in Docs(verification_collection) : ~SyntacticallyValid(d.email)

(***************************************************************************)
(* Further properties of end_game.                                         *)
(***************************************************************************)
\* C14: end_game with show_pokemon on a code that has a game goes through to the
\* roster loop and answers 200 with, for each player of the game it found and keyed
\* by the player's username, that player's roster as stored when it answers, empty
\* for a player with no roster; end_game on a code with no game is answered 404,
\* and neither its arrival nor its answer changes a game.
C14_EndGameShowsRosters ==
    [][ /\ \A code \in GameCodes : \A show_pokemon \in BOOLEAN :
               EndGameReceive(Client, code, show_pokemon)
                   => games_collection' = games_collection
        /\ ( /\ pc[Client] = "end_game_find"
             /\ pc'[Client] # pc[Client] )
               => IF Matches(games_collection, "code", data[Client].code) = {}
                  THEN /\ response' = ErrorResponse("end_game", 404, "Game not found")
                       /\ games_collection' = games_collection
                  ELSE pc'[Client] = "end_game_update"
        /\ ( /\ pc[Client] = "end_game_update"
             /\ pc'[Client] # pc[Client]
             /\ data[Client].show_pokemon )
               => pc'[Client] = "end_game_pokemons_1"
        /\ ( /\ pc[Client] = "end_game_pokemons_1"
             /\ pc'[Client] # pc[Client] )
               => pc'[Client] = "end_game_pokemons_2"
        /\ ( /\ pc[Client] = "end_game_pokemons_2"
             /\ pc'[Client] # pc[Client] )
               => LET players == { game[Client][1].players[i] : i \in {1, 2} }
                  IN /\ pc'[Client] = "idle"
                     /\ response'.status = 200
                     /\ DOMAIN response'.pokemons = players
                     /\ \A u \in players :
                            response'.pokemons[u] = Roster(pokemon_collection, u) ]_vars

\* C14 witness: an end_game has answered with the rosters of two players, one of
\* them with creatures and one with none.
C14_Witness ==
    /\ response.op = "end_game"
    /\ response.status = 200
    /\ "pokemons" \in DOMAIN response
    /\ \E u \in DOMAIN response.pokemons : response.pokemons[u] # <<>>
    /\ \E u \in DOMAIN response.pokemons : response.pokemons[u] = <<>>

\* C19, as claimed: when end_game(code) is answered 200, no game with that code is
\* active.
C19_NoActiveGameAfterEndGame ==
    [][ ( /\ pc[Client] \in {"end_game_update", "end_game_pokemons_2"}
          /\ pc'[Client] = "idle"
          /\ response'.status = 200 )
            => \A i \in 1..Len(games_collection') :
                   games_collection'[i].code = data[Client].code
                       => games_collection'[i].status # "active" ]_vars

\* C19 witness: two games carry one code and an end_game for it has been answered
\* 200.
C19_Witness ==
    /\ response.op = "end_game"
    /\ response.status = 200
    /\ \E i \in 1..Len(games_collection) : \E j \in 1..Len(games_collection) :
           /\ i # j
           /\ games_collection[i].code = games_collection[j].code

====
